---- MODULE Spec2Model ----
(***************************************************************************)
(* Model of the Markdown translation scripts scripts/translate_chapters.py *)
(* (zh -> en) and scripts/translate_to_ja.py (zh/en -> ja).                *)
(*                                                                         *)
(* A Python str is modelled as a sequence of one-character strings, so     *)
(* that the regular expressions, str.strip, str.split, str.splitlines,     *)
(* str.replace and str.title act on characters exactly as in the source.   *)
(***************************************************************************)
EXTENDS Integers, Sequences, FiniteSets, TLC

\* ------------------------------------------------------------------------
\* Characters and literals
\* ------------------------------------------------------------------------

\* The characters str.strip() removes and the regex class \s matches.
Whitespace == {" ", "\n", "\t", "\r", "\f"}

LowerCase == <<"a","b","c","d","e","f","g","h","i","j","k","l","m",
               "n","o","p","q","r","s","t","u","v","w","x","y","z">>
UpperCase == <<"A","B","C","D","E","F","G","H","I","J","K","L","M",
               "N","O","P","Q","R","S","T","U","V","W","X","Y","Z">>
DigitChars == <<"0","1","2","3","4","5","6","7","8","9">>

Range(f) == {f[i] : i \in DOMAIN f}

Letters == Range(LowerCase) \cup Range(UpperCase)

\* The regex class [a-z0-9\-] of the slug.
SlugChars == Range(LowerCase) \cup Range(DigitChars) \cup {"-"}

\* The backtick character, which a TLA+ string literal cannot hold.
BACKTICK == "BQ"
NLNL == <<"\n", "\n">>
ANNOTATION_COLON == <<"a","n","n","o","t","a","t","i","o","n",":">>
OPEN_ANNOTATION == <<"(">> \o ANNOTATION_COLON
BRACKET_ANNOTATION == <<"[">> \o ANNOTATION_COLON
FENCE_MARK == <<BACKTICK, BACKTICK, BACKTICK>>
INLINE_CODE_PREFIX == <<"_","_","I","N","L","I","N","E","_","C","O","D","E","_">>
ANNO_T_PREFIX == <<"_","_","A","N","N","O","_","T","_">>
ANNO_B_PREFIX == <<"_","_","A","N","N","O","_","B","_">>
KEY_SUFFIX == <<"_","_">>

\* ------------------------------------------------------------------------
\* str primitives
\* ------------------------------------------------------------------------

\* The least element of a set of indices, or 0 when there is none.
MinOrZero(S) == IF S = {} THEN 0 ELSE CHOOSE x \in S : \A y \in S : x <= y

\* s[i:i+len(lit)] == lit
MatchAt(s, i, lit) ==
    /\ i >= 1
    /\ i + Len(lit) - 1 <= Len(s)
    /\ \A k \in 1..Len(lit) : s[i + k - 1] = lit[k]

\* The end (exclusive) of the maximal run of characters of S that starts at
\* index i: the first j >= i with s[j] \notin S, or Len(s)+1.
RunEnd(s, i, S) ==
    IF i > Len(s) THEN i
    ELSE CHOOSE j \in i..(Len(s) + 1) :
            /\ (j = Len(s) + 1 \/ s[j] \notin S)
            /\ \A k \in i..(j - 1) : s[k] \in S

\* First index j >= i with s[j] = c, or Len(s)+1.
FindChar(s, i, c) ==
    IF i > Len(s) THEN i
    ELSE CHOOSE j \in i..(Len(s) + 1) :
            /\ (j = Len(s) + 1 \/ s[j] = c)
            /\ \A k \in i..(j - 1) : s[k] # c

\* The start (exclusive) of the maximal run of characters of S that ends at
\* index i: the last j <= i with s[j] \notin S, or 0.
RunStartBack(s, i, S) ==
    IF i < 1 THEN i
    ELSE CHOOSE j \in 0..i :
            /\ (j = 0 \/ s[j] \notin S)
            /\ \A k \in (j + 1)..i : s[k] \in S

\* s[a-1:b], empty when a > b
Slice(s, a, b) == IF a > b THEN <<>> ELSE SubSeq(s, a, b)

\* str.strip()
strip(s) == Slice(s, RunEnd(s, 1, Whitespace), RunStartBack(s, Len(s), Whitespace))

\* sep.join(parts)
RECURSIVE JoinFrom(_, _, _)
JoinFrom(parts, sep, i) ==
    IF i > Len(parts) THEN <<>>
    ELSE IF i = Len(parts) THEN parts[i]
    ELSE parts[i] \o sep \o JoinFrom(parts, sep, i + 1)

join(sep, parts) == JoinFrom(parts, sep, 1)

\* s.find(lit, i): the first index j >= i where lit occurs in s, or 0.
FindFrom(s, lit, i) == MinOrZero({j \in i..(Len(s) - Len(lit) + 1) : MatchAt(s, j, lit)})

\* s.split(sep), sep non-empty: left to right, non-overlapping; "" gives [""].
\* SplitAt: the pieces of s from index start on, the next sep being at j.
RECURSIVE SplitFrom(_, _, _)
SplitAt(s, sep, start, j) ==
    IF j = 0 THEN <<SubSeq(s, start, Len(s))>>
    ELSE <<SubSeq(s, start, j - 1)>> \o SplitFrom(s, sep, j + Len(sep))

SplitFrom(s, sep, start) == SplitAt(s, sep, start, FindFrom(s, sep, start))

split(s, sep) == SplitFrom(s, sep, 1)

\* s.replace(old, new): every non-overlapping occurrence, left to right.
RECURSIVE ReplaceFrom(_, _, _, _)
ReplaceAt(s, old, new, start, j) ==
    IF j = 0 THEN SubSeq(s, start, Len(s))
    ELSE SubSeq(s, start, j - 1) \o new \o ReplaceFrom(s, old, new, j + Len(old))

ReplaceFrom(s, old, new, start) == ReplaceAt(s, old, new, start, FindFrom(s, old, start))

replace(s, old, new) == ReplaceFrom(s, old, new, 1)

\* s.splitlines() for the line boundaries \n, \r\n and \r: the line breaks are
\* dropped and a final line break opens no further line.  SplitLinesAt: the
\* lines of s from index start on, the next line break being at j.
RECURSIVE SplitLinesFrom(_, _)
SplitLinesAt(s, start, j) ==
    IF j > Len(s) THEN <<SubSeq(s, start, Len(s))>>
    ELSE <<SubSeq(s, start, j - 1)>>
         \o SplitLinesFrom(s, IF s[j] = "\r" /\ j < Len(s) /\ s[j + 1] = "\n"
                              THEN j + 2 ELSE j + 1)

SplitLinesFrom(s, start) ==
    IF start > Len(s) THEN <<>>
    ELSE SplitLinesAt(s, start, RunEnd(s, start, Range(s) \ {"\n", "\r"}))

splitlines(s) == SplitLinesFrom(s, 1)

\* str(n) for n >= 0
RECURSIVE ToDecimal(_)
ToDecimal(n) ==
    IF n < 10 THEN <<DigitChars[n + 1]>>
    ELSE ToDecimal(n \div 10) \o <<DigitChars[(n % 10) + 1]>>

\* str.title(): a letter is upper-cased when no letter precedes it and
\* lower-cased otherwise; other characters are kept.
IndexOf(seq, c) == CHOOSE k \in DOMAIN seq : seq[k] = c
ToUpper(c) == IF c \in Range(LowerCase) THEN UpperCase[IndexOf(LowerCase, c)] ELSE c
ToLower(c) == IF c \in Range(UpperCase) THEN LowerCase[IndexOf(UpperCase, c)] ELSE c

title(s) ==
    [i \in 1..Len(s) |->
        IF s[i] \notin Letters THEN s[i]
        ELSE IF i > 1 /\ s[i - 1] \in Letters THEN ToLower(s[i])
        ELSE ToUpper(s[i])]

\* ------------------------------------------------------------------------
\* Regular expressions: XMatchEnd(s, i) is the index just after the match of
\* X that starts at index i, or 0 when X does not match at i.  Every
\* quantifier is greedy over a character class disjoint from what follows
\* it, so the maximal run is the only run the regex engine can settle on.
\* ------------------------------------------------------------------------

\* FENCE_RE: optional whitespace, then three backticks, used with .match(line)
FENCE_RE_match(line) == MatchAt(line, RunEnd(line, 1, Whitespace), FENCE_MARK)

\* A run that started at index a and stops at index b, then the character
\* close: the end of the match, or 0 when the run is empty or close is missing.
ClosedRunEnd(s, a, b, close) ==
    IF b > a /\ b <= Len(s) /\ s[b] = close THEN b + 1 ELSE 0

\* INLINE_CODE_RE: a backtick, one or more non-backticks, a backtick
InlineCodeMatchEnd(s, i) ==
    IF i > Len(s) \/ s[i] # BACKTICK THEN 0
    ELSE ClosedRunEnd(s, i + 1, FindChar(s, i + 1, BACKTICK), BACKTICK)

\* ANNO_TARGET_RE = \(annotation:([^)]+)\)
AnnoTargetMatchEnd(s, i) ==
    IF ~MatchAt(s, i, OPEN_ANNOTATION) THEN 0
    ELSE ClosedRunEnd(s, i + Len(OPEN_ANNOTATION),
                      FindChar(s, i + Len(OPEN_ANNOTATION), ")"), ")")

\* (?<!\()annotation:  at i, then \s* when ws, then ([a-z0-9\-]+):
\* ANNO_BARE_RE (ws = FALSE) and the bare pattern of normalize_annotations
\* (ws = TRUE).  BareSlugStart is where group 1 starts.
BareSlugStart(s, i, ws) ==
    IF ws THEN RunEnd(s, i + Len(ANNOTATION_COLON), Whitespace)
    ELSE i + Len(ANNOTATION_COLON)

\* A run that started at index a and stops at index b: b, or 0 when empty.
OpenRunEnd(a, b) == IF b > a THEN b ELSE 0

\* The bare pattern without its lookbehind (?<!\().
BareMatchEndNoLookbehind(s, i, ws) ==
    IF ~MatchAt(s, i, ANNOTATION_COLON) THEN 0
    ELSE OpenRunEnd(BareSlugStart(s, i, ws),
                    RunEnd(s, BareSlugStart(s, i, ws), SlugChars))

BareMatchEnd(s, i, ws) ==
    IF ~MatchAt(s, i, ANNOTATION_COLON) \/ (i > 1 /\ s[i - 1] = "(") THEN 0
    ELSE OpenRunEnd(BareSlugStart(s, i, ws),
                    RunEnd(s, BareSlugStart(s, i, ws), SlugChars))

\* \[annotation:\s*([a-z0-9\-]+)\]  and  \(annotation:\s*([a-z0-9\-]+)\)
\* (open = "[" or "(", close = "]" or ")").  DelimSlugStart is where group 1
\* starts.
DelimSlugStart(s, i) == RunEnd(s, i + 1 + Len(ANNOTATION_COLON), Whitespace)

DelimMatchEnd(s, i, open, close) ==
    IF ~MatchAt(s, i, <<open>> \o ANNOTATION_COLON) THEN 0
    ELSE ClosedRunEnd(s, DelimSlugStart(s, i),
                      RunEnd(s, DelimSlugStart(s, i), SlugChars), close)

\* \]\s+\(
GapMatchEnd(s, i) ==
    IF i > Len(s) \/ s[i] # "]" THEN 0
    ELSE ClosedRunEnd(s, i + 1, RunEnd(s, i + 1, Whitespace), "(")

\* The regular expressions by name.  "BARE", "BRACKETED", "GAP" and "TARGET"
\* are the four patterns of normalize_annotations.
MatchEnd(re, s, i) ==
    CASE re = "INLINE_CODE_RE" -> InlineCodeMatchEnd(s, i)
      [] re = "ANNO_TARGET_RE" -> AnnoTargetMatchEnd(s, i)
      [] re = "ANNO_BARE_RE"   -> BareMatchEnd(s, i, FALSE)
      [] re = "BRACKETED"      -> DelimMatchEnd(s, i, "[", "]")
      [] re = "GAP"            -> GapMatchEnd(s, i)
      [] re = "TARGET"         -> DelimMatchEnd(s, i, "(", ")")
      [] re = "BARE"           -> BareMatchEnd(s, i, TRUE)

\* re.search from index i on: where the leftmost match starts, or 0.
NextMatch(re, s, i) == MinOrZero({j \in i..Len(s) : MatchEnd(re, s, j) # 0})

\* ------------------------------------------------------------------------
\* Placeholder protection
\* ------------------------------------------------------------------------

\* f"__INLINE_CODE_{n}__" and its annotation counterparts
PlaceholderKey(prefix, n) == prefix \o ToDecimal(n) \o KEY_SUFFIX

\* RE.sub(repl, text) from index start on, where repl stores the match under
\* the key prefix + len(placeholders) + "__" and returns the key; n is
\* len(placeholders) so far.  A dict keeps insertion order: placeholders is
\* the sequence of its (key, value) items.  ProtectAt: the leftmost match
\* from start on is s[i..e-1] (i = 0: there is none); rest is the result for
\* what follows the match.
RECURSIVE ProtectFrom(_, _, _, _, _)
ProtectMatch(s, start, i, e, key, rest) ==
    [text |-> SubSeq(s, start, i - 1) \o key \o rest.text,
     placeholders |-> <<<<key, SubSeq(s, i, e - 1)>>>> \o rest.placeholders]

ProtectAt(re, prefix, s, start, n, i, e) ==
    IF i = 0 THEN [text |-> SubSeq(s, start, Len(s)), placeholders |-> <<>>]
    ELSE ProtectMatch(s, start, i, e, PlaceholderKey(prefix, n),
                      ProtectFrom(re, prefix, s, e, n + 1))

ProtectNext(re, prefix, s, start, n, i) ==
    ProtectAt(re, prefix, s, start, n, i, IF i = 0 THEN 0 ELSE MatchEnd(re, s, i))

ProtectFrom(re, prefix, s, start, n) ==
    ProtectNext(re, prefix, s, start, n, NextMatch(re, s, start))

protect_inline_code(text) == ProtectFrom("INLINE_CODE_RE", INLINE_CODE_PREFIX, text, 1, 0)

\* The two substitutions share one placeholders dict, so the index of the
\* bare keys continues after the target keys.
ProtectBare(t) ==
    ProtectFrom("ANNO_BARE_RE", ANNO_B_PREFIX, t.text, 1, Len(t.placeholders))

\* first, second: the results of two protections in a row; the text of the
\* second with the placeholders of both.
MergePlaceholders(first, second) ==
    [text |-> second.text, placeholders |-> first.placeholders \o second.placeholders]

ProtectTargetsThenBare(t) == MergePlaceholders(t, ProtectBare(t))

protect_annotations(text) ==
    ProtectTargetsThenBare(ProtectFrom("ANNO_TARGET_RE", ANNO_T_PREFIX, text, 1, 0))

\* for key, value in placeholders.items(): text = text.replace(key, value)
RECURSIVE RestoreFrom(_, _, _)
RestoreFrom(text, placeholders, k) ==
    IF k > Len(placeholders) THEN text
    ELSE RestoreFrom(replace(text, placeholders[k][1], placeholders[k][2]),
                     placeholders, k + 1)

restore_inline_code(text, placeholders) == RestoreFrom(text, placeholders, 1)

\* ------------------------------------------------------------------------
\* Annotation normalizer
\* ------------------------------------------------------------------------

\* str.capitalize() of a lower-case word.
Capitalize(w) == IF w = <<>> THEN w ELSE <<ToUpper(w[1])>> \o Tail(w)

\* The hyphen-separated words of the slug, each capitalized, joined by spaces.
CapitalizedWords(slug) ==
    join(<<" ">>, [k \in 1..Len(split(slug, <<"-">>)) |-> Capitalize(split(slug, <<"-">>)[k])])

\* slug.replace('-', ' ').strip().title()
slug_to_title(slug) == title(strip(replace(slug, <<"-">>, <<" ">>)))

\* f"[{title}](annotation:{slug})"
CanonicalLink(slug) ==
    <<"[">> \o slug_to_title(slug) \o <<"]">> \o OPEN_ANNOTATION \o slug \o <<")">>

\* What each pattern of normalize_annotations puts in place of its match
\* s[i..e-1]: repl_bracketed, "](", r"(annotation:\1)", repl_bare_annotation.
Replacement(re, s, i, e) ==
    CASE re = "BRACKETED" -> CanonicalLink(strip(SubSeq(s, DelimSlugStart(s, i), e - 2)))
      [] re = "GAP"       -> <<"]", "(">>
      [] re = "TARGET"    -> OPEN_ANNOTATION \o SubSeq(s, DelimSlugStart(s, i), e - 2) \o <<")">>
      [] re = "BARE"      -> CanonicalLink(SubSeq(s, BareSlugStart(s, i, TRUE), e - 1))

\* re.sub(pattern, repl, md) from index start on.  SubAt: the leftmost match
\* from start on is s[i..e-1] (i = 0: there is none).
RECURSIVE SubFrom(_, _, _)
SubAt(re, s, start, i, e) ==
    IF i = 0 THEN SubSeq(s, start, Len(s))
    ELSE SubSeq(s, start, i - 1) \o Replacement(re, s, i, e) \o SubFrom(re, s, e)

SubNext(re, s, start, i) ==
    SubAt(re, s, start, i, IF i = 0 THEN 0 ELSE MatchEnd(re, s, i))

SubFrom(re, s, start) == SubNext(re, s, start, NextMatch(re, s, start))

NormalizeBracketed(md) == SubFrom("BRACKETED", md, 1)
NormalizeGap(md) == SubFrom("GAP", md, 1)
NormalizeTarget(md) == SubFrom("TARGET", md, 1)
NormalizeBare(md) == SubFrom("BARE", md, 1)

normalize_annotations(md) ==
    NormalizeBare(NormalizeTarget(NormalizeGap(NormalizeBracketed(md))))

\* ------------------------------------------------------------------------
\* Chunking
\* ------------------------------------------------------------------------

\* The default of the max_chars parameter.
DEFAULT_MAX_CHARS == 800

\* The state of the loop of chunk_paragraphs before its first iteration.
ChunkStart == [chunks |-> <<>>, current |-> <<>>, current_len |-> 0]

\* The loop body without its flush: every paragraph joins the current chunk.
ChunkStepNeverFlushes(st, p, max_chars) ==
    [chunks |-> st.chunks,
     current |-> Append(st.current, p),
     current_len |-> st.current_len + (Len(p) + 2)]

\* One iteration of the loop, for paragraph p (add_len = len(p) + 2).
ChunkStep(st, p, max_chars) ==
    IF st.current_len + (Len(p) + 2) > max_chars /\ st.current # <<>>
    THEN [chunks |-> Append(st.chunks, join(NLNL, st.current)),
          current |-> <<p>>,
          current_len |-> Len(p)]
    ELSE [chunks |-> st.chunks,
          current |-> Append(st.current, p),
          current_len |-> st.current_len + (Len(p) + 2)]

\* The flush after the loop, and the return value.
ChunkFinish(st) ==
    IF st.current # <<>> THEN Append(st.chunks, join(NLNL, st.current)) ELSE st.chunks

RECURSIVE ChunkLoop(_, _, _, _)
ChunkLoop(st, paragraphs, k, max_chars) ==
    IF k > Len(paragraphs) THEN st
    ELSE ChunkLoop(ChunkStep(st, paragraphs[k], max_chars), paragraphs, k + 1, max_chars)

chunk_paragraphs(paragraphs, max_chars) ==
    ChunkFinish(ChunkLoop(ChunkStart, paragraphs, 1, max_chars))

\* ------------------------------------------------------------------------
\* Segmenter: the first loop of translate_markdown
\* ------------------------------------------------------------------------

\* The state of the loop before its first line.
SegStart == [segments |-> <<>>, buf |-> <<>>, in_code |-> FALSE]

\* if buf: segments.append((in_code, "\n".join(buf)))
FlushBuf(st) ==
    IF st.buf # <<>>
    THEN Append(st.segments, [is_code |-> st.in_code, text |-> join(<<"\n">>, st.buf)])
    ELSE st.segments

\* The loop body with a fence line that does not toggle in_code.
SegStepNoToggle(st, line) ==
    IF FENCE_RE_match(line)
    THEN [segments |-> Append(FlushBuf(st), [is_code |-> TRUE, text |-> line]),
          buf |-> <<>>,
          in_code |-> st.in_code]
    ELSE [segments |-> st.segments, buf |-> Append(st.buf, line), in_code |-> st.in_code]

\* One iteration, for one line.  A segment is (is_code, text).
SegStep(st, line) ==
    IF FENCE_RE_match(line)
    THEN [segments |-> Append(FlushBuf(st), [is_code |-> TRUE, text |-> line]),
          buf |-> <<>>,
          in_code |-> ~st.in_code]
    ELSE [segments |-> st.segments, buf |-> Append(st.buf, line), in_code |-> st.in_code]

\* The flush after the loop.
SegFinish(st) == FlushBuf(st)

RECURSIVE SegLoop(_, _, _)
SegLoop(st, lines, k) ==
    IF k > Len(lines) THEN st ELSE SegLoop(SegStep(st, lines[k]), lines, k + 1)

Segmenter(content) == SegFinish(SegLoop(SegStart, splitlines(content), 1))

\* ------------------------------------------------------------------------
\* Protected translator: the body of the second loop for one text segment
\* ------------------------------------------------------------------------

\* translate_to_ja.py: prot, ph_ann = protect_annotations(prot);
\* ph_inline.update(ph_ann)
ProtectAnnotationsToo(a) == MergePlaceholders(a, protect_annotations(a.text))

\* prot, placeholders for one paragraph.  translate_to_ja.py also protects
\* the annotation references.
ProtectParagraph(s, p) ==
    IF s = "ja" THEN ProtectAnnotationsToo(protect_inline_code(p))
    ELSE protect_inline_code(p)

\* Paragraph i of the translation restored with the placeholders of
\* paragraph i of the source, as far as there are any.
RestoreParagraphs(tr_paras, ph_list) ==
    [i \in 1..Len(tr_paras) |->
        IF i <= Len(ph_list) THEN restore_inline_code(tr_paras[i], ph_list[i])
        ELSE tr_paras[i]]

\* tr_paras = translated_seg.split("\n\n") if translated_seg else []
RestoreSegment(translated_seg, ph_list) ==
    join(NLNL, RestoreParagraphs(IF translated_seg # <<>> THEN split(translated_seg, NLNL)
                                 ELSE <<>>, ph_list))

\* The protected paragraphs of a text segment.
ProtectAll(s, paragraphs) ==
    [i \in 1..Len(paragraphs) |-> ProtectParagraph(s, paragraphs[i])]

TextsOf(prot) == [i \in 1..Len(prot) |-> prot[i].text]
PlaceholdersOf(prot) == [i \in 1..Len(prot) |-> prot[i].placeholders]

\* ------------------------------------------------------------------------
\* The translation provider (deep_translator.GoogleTranslator), an external
\* collaborator: what one call translator.translate(text) may do.
\* ------------------------------------------------------------------------

\* "identity" returns the text, "upper" returns it with every letter
\* upper-cased, "raise" raises an Exception and "none" returns None.
Outcomes == {"identity", "upper", "raise", "none"}

\* The value None among the translated chunks.
NONE == <<"<None>">>

TranslatorResult(outcome, text) ==
    CASE outcome = "identity" -> text
      [] outcome = "upper"    -> [i \in 1..Len(text) |-> ToUpper(text[i])]
      [] outcome = "none"     -> NONE

\* The handler dropping the chunk instead of keeping its text.
ChunkResultDropsFailed(outcome, text) ==
    IF outcome = "raise" THEN <<>> ELSE TranslatorResult(outcome, text)

\* try: translated = translator.translate(text)
\* except Exception: translated = text
ChunkResult(outcome, text) ==
    IF outcome = "raise" THEN text ELSE TranslatorResult(outcome, text)

\* ------------------------------------------------------------------------
\* State
\* ------------------------------------------------------------------------

VARIABLES
    script,             \* "en": translate_chapters.py, "ja": translate_to_ja.py
    fs,                 \* source tree: directory -> [exists, files: name -> content]
    pass,               \* which source directory main is working through
    todo,               \* the files of that directory still to visit, sorted
    pc,                 \* where main stands
    content,            \* the document read from the current file
    segments,           \* translate_markdown: segments
    seg_i,              \* index of the segment the second loop is at
    out,                \* translate_markdown: out
    placeholders_list,  \* per paragraph of the current text segment
    chunks,             \* chunk_paragraphs(protected) of the current text segment
    translated_chunks,  \* translated_chunks / tr_chunks
    translated,         \* main: translated
    written,            \* destination tree: <<directory, name>> -> content
    chunk_log,          \* history: what happened to each chunk of the document
    events,             \* history: what main did with each file
    ck,                 \* chunk_paragraphs run on its own: its loop state
    nm                  \* normalize_annotations run on its own: its passes

vars == <<script, fs, pass, todo, pc, content, segments, seg_i, out,
          placeholders_list, chunks, translated_chunks, translated, written,
          chunk_log, events, ck, nm>>

docVars == <<content, segments, seg_i, out, placeholders_list, chunks,
             translated_chunks, translated, chunk_log>>
runVars == <<script, fs, pass, todo, written, events>>

\* ------------------------------------------------------------------------
\* Source and destination directories
\* ------------------------------------------------------------------------

Scripts == {"en", "ja"}

\* The source directory and the destination directory of each pass:
\* translate_chapters.py has one, translate_to_ja.py three.
Passes(s) ==
    IF s = "en"
    THEN << [src |-> "chapters/zh", dst |-> "chapters/en", preferred |-> ""] >>
    ELSE << [src |-> "chapters/zh", dst |-> "chapters/ja", preferred |-> ""],
            [src |-> "chapters/en", dst |-> "chapters/ja", preferred |-> "chapters/zh"],
            [src |-> "annotations/zh", dst |-> "annotations/ja", preferred |-> ""] >>

SourceDirs == {"chapters/zh", "chapters/en", "annotations/zh"}

\* The file names a directory may hold, in sorted order.
FileNames == <<"a.md", "b.md">>

\* sorted(src_dir.glob('*.md'))
SortedNames(dir) ==
    LET Present(n) == n \in DOMAIN fs[dir].files
    IN  SelectSeq(FileNames, Present)

CurrentPass == Passes(script)[pass]
CurrentFile == <<CurrentPass.src, Head(todo)>>

\* zh_names = {p.name for p in zh_dir.glob('*.md')} if zh_dir.exists() else set()
NoNames == {}

PreferredNames ==
    IF CurrentPass.preferred # "" /\ fs[CurrentPass.preferred].exists
    THEN DOMAIN fs[CurrentPass.preferred].files
    ELSE NoNames

\* ------------------------------------------------------------------------
\* translate_markdown, step by step
\* ------------------------------------------------------------------------

\* The first loop: content.splitlines() cut into segments.
SegmentDocument ==
    /\ pc = "translate"
    /\ segments' = Segmenter(content)
    /\ out' = <<>>
    /\ seg_i' = 1
    /\ chunk_log' = <<>>
    /\ pc' = "segments"
    /\ UNCHANGED <<content, placeholders_list, chunks, translated_chunks,
                   translated, runVars, ck, nm>>

\* if is_code: out.append(seg)
CopyCodeSegment ==
    /\ pc = "segments"
    /\ seg_i <= Len(segments)
    /\ segments[seg_i].is_code
    /\ out' = Append(out, segments[seg_i].text)
    /\ seg_i' = seg_i + 1
    /\ UNCHANGED <<pc, content, segments, placeholders_list, chunks,
                   translated_chunks, translated, chunk_log, runVars, ck, nm>>

\* A text segment: split into paragraphs, protect each, chunk the protected
\* paragraphs.
ProtectTextSegment ==
    /\ pc = "segments"
    /\ seg_i <= Len(segments)
    /\ ~segments[seg_i].is_code
    /\ placeholders_list' = PlaceholdersOf(ProtectAll(script, split(segments[seg_i].text, NLNL)))
    /\ chunks' = chunk_paragraphs(TextsOf(ProtectAll(script, split(segments[seg_i].text, NLNL))),
                                  DEFAULT_MAX_CHARS)
    /\ translated_chunks' = <<>>
    /\ pc' = "chunks"
    /\ UNCHANGED <<content, segments, seg_i, out, translated, chunk_log,
                   runVars, ck, nm>>

NextChunk == chunks[Len(translated_chunks) + 1]

LogChunk(outcome, result) ==
    Append(chunk_log, [seg |-> seg_i, idx |-> Len(translated_chunks) + 1,
                       chunk |-> NextChunk, text |-> strip(NextChunk),
                       outcome |-> outcome, result |-> result])

\* text = ch.strip(); if not text: translated_chunks.append(text); continue
PassEmptyChunk ==
    /\ pc = "chunks"
    /\ Len(translated_chunks) < Len(chunks)
    /\ strip(NextChunk) = <<>>
    /\ translated_chunks' = Append(translated_chunks, strip(NextChunk))
    /\ chunk_log' = LogChunk("empty", strip(NextChunk))
    /\ UNCHANGED <<pc, content, segments, seg_i, out, placeholders_list, chunks,
                   translated, runVars, ck, nm>>

\* One call of the translator, whatever it does.
TranslateChunk ==
    /\ pc = "chunks"
    /\ Len(translated_chunks) < Len(chunks)
    /\ strip(NextChunk) # <<>>
    /\ \E outcome \in Outcomes :
          /\ translated_chunks' = Append(translated_chunks, ChunkResult(outcome, strip(NextChunk)))
          /\ chunk_log' = LogChunk(outcome, ChunkResult(outcome, strip(NextChunk)))
    /\ UNCHANGED <<pc, content, segments, seg_i, out, placeholders_list, chunks,
                   translated, runVars, ck, nm>>

\* "\n\n".join(translated_chunks) raises TypeError when a chunk is None.
JoinRaises(tr) == \E i \in 1..Len(tr) : tr[i] = NONE

\* The loop over the chunks is over: join, split again, restore, append.
RestoreTextSegment ==
    /\ pc = "chunks"
    /\ Len(translated_chunks) = Len(chunks)
    /\ ~JoinRaises(translated_chunks)
    /\ out' = Append(out, RestoreSegment(join(NLNL, translated_chunks), placeholders_list))
    /\ seg_i' = seg_i + 1
    /\ pc' = "segments"
    /\ UNCHANGED <<content, segments, placeholders_list, chunks, translated_chunks,
                   translated, chunk_log, runVars, ck, nm>>

\* The TypeError leaves translate_markdown.
PipelineRaises ==
    /\ pc = "chunks"
    /\ Len(translated_chunks) = Len(chunks)
    /\ JoinRaises(translated_chunks)
    /\ pc' = "except"
    /\ UNCHANGED <<docVars, runVars, ck, nm>>

\* return "\n".join(out)
ReturnTranslated ==
    /\ pc = "segments"
    /\ seg_i > Len(segments)
    /\ translated' = join(<<"\n">>, out)
    /\ pc' = "normalize"
    /\ UNCHANGED <<content, segments, seg_i, out, placeholders_list, chunks,
                   translated_chunks, chunk_log, runVars, ck, nm>>

\* ------------------------------------------------------------------------
\* The body of main's loop over the files, after the read
\* ------------------------------------------------------------------------

\* The handler giving the document up instead of keeping its content.
FallbackGivesUp ==
    /\ pc = "except"
    /\ events' = events \cup {[op |-> "fallback", file |-> CurrentFile, text |-> content]}
    /\ todo' = Tail(todo)
    /\ pc' = "loop"
    /\ UNCHANGED <<docVars, script, fs, pass, written, ck, nm>>

\* except Exception: translated = content.  translate_chapters.py goes on to
\* normalize; in translate_to_ja.py the normalizer is inside the try.
Fallback ==
    /\ pc = "except"
    /\ translated' = content
    /\ pc' = IF script = "en" THEN "normalize" ELSE "write"
    /\ events' = events \cup {[op |-> "fallback", file |-> CurrentFile, text |-> content]}
    /\ UNCHANGED <<content, segments, seg_i, out, placeholders_list, chunks,
                   translated_chunks, chunk_log, script, fs, pass, todo, written, ck, nm>>

Normalize ==
    /\ pc = "normalize"
    /\ translated' = normalize_annotations(translated)
    /\ pc' = "write"
    /\ UNCHANGED <<content, segments, seg_i, out, placeholders_list, chunks,
                   translated_chunks, chunk_log, runVars, ck, nm>>

Destination == <<CurrentPass.dst, Head(todo)>>

\* dst.write_text(...) succeeds.
WriteOk ==
    /\ pc = "write"
    /\ written' = [f \in DOMAIN written \cup {Destination} |->
                      IF f = Destination THEN translated ELSE written[f]]
    /\ events' = events \cup {[op |-> "write", file |-> CurrentFile, text |-> translated]}
    /\ todo' = Tail(todo)
    /\ pc' = "loop"
    /\ UNCHANGED <<docVars, script, fs, pass, ck, nm>>

\* dst.write_text(...) raises: logged, the loop goes on.
WriteFails ==
    /\ pc = "write"
    /\ events' = events \cup {[op |-> "write_failed", file |-> CurrentFile, text |-> translated]}
    /\ todo' = Tail(todo)
    /\ pc' = "loop"
    /\ UNCHANGED <<docVars, script, fs, pass, written, ck, nm>>

\* ------------------------------------------------------------------------
\* main: the passes over the source directories
\* ------------------------------------------------------------------------

LastPass == script = "en" \/ pass = Len(Passes(script))

\* The source directory exists: md_files = sorted(SRC_DIR.glob('*.md')).
StartPass ==
    /\ pc = "start"
    /\ fs[CurrentPass.src].exists
    /\ todo' = SortedNames(CurrentPass.src)
    /\ pc' = "loop"
    /\ UNCHANGED <<docVars, script, fs, pass, written, events, ck, nm>>

\* The source directory does not exist: translate_chapters.py exits,
\* translate_to_ja.py goes on to its next directory.
MissingDir ==
    /\ pc = "start"
    /\ ~fs[CurrentPass.src].exists
    /\ IF LastPass THEN pc' = "done" /\ pass' = pass
                   ELSE pc' = "start" /\ pass' = pass + 1
    /\ UNCHANGED <<docVars, script, fs, todo, written, events, ck, nm>>

\* The loop over the files is over.
EndPass ==
    /\ pc = "loop"
    /\ todo = <<>>
    /\ IF LastPass THEN pc' = "done" /\ pass' = pass
                   ELSE pc' = "start" /\ pass' = pass + 1
    /\ UNCHANGED <<docVars, script, fs, todo, written, events, ck, nm>>

\* if src.name in zh_names: continue
SkipPreferred ==
    /\ pc = "loop"
    /\ todo # <<>>
    /\ Head(todo) \in PreferredNames
    /\ events' = events \cup {[op |-> "skip", file |-> CurrentFile, text |-> <<>>]}
    /\ todo' = Tail(todo)
    /\ UNCHANGED <<docVars, script, fs, pass, pc, written, ck, nm>>

\* content = src.read_text(encoding='utf-8')
ReadOk ==
    /\ pc = "loop"
    /\ todo # <<>>
    /\ Head(todo) \notin PreferredNames
    /\ content' = fs[CurrentPass.src].files[Head(todo)]
    /\ events' = events \cup {[op |-> "read", file |-> CurrentFile,
                               text |-> fs[CurrentPass.src].files[Head(todo)]]}
    /\ pc' = "translate"
    /\ UNCHANGED <<segments, seg_i, out, placeholders_list, chunks, translated_chunks,
                   translated, chunk_log, script, fs, pass, todo, written, ck, nm>>

\* read_text raises: logged, the loop goes on.
ReadFails ==
    /\ pc = "loop"
    /\ todo # <<>>
    /\ Head(todo) \notin PreferredNames
    /\ events' = events \cup {[op |-> "read_failed", file |-> CurrentFile, text |-> <<>>]}
    /\ todo' = Tail(todo)
    /\ UNCHANGED <<docVars, script, fs, pass, pc, written, ck, nm>>

RunNext ==
    \/ StartPass
    \/ MissingDir
    \/ EndPass
    \/ SkipPreferred
    \/ ReadOk
    \/ ReadFails

DocNext ==
    \/ SegmentDocument
    \/ CopyCodeSegment
    \/ ProtectTextSegment
    \/ PassEmptyChunk
    \/ TranslateChunk
    \/ RestoreTextSegment
    \/ PipelineRaises
    \/ ReturnTranslated
    \/ Fallback
    \/ Normalize
    \/ WriteOk
    \/ WriteFails

\* ------------------------------------------------------------------------
\* One document through the loop body
\* ------------------------------------------------------------------------

\* The documents: up to MaxLines lines joined by "\n", with or without a
\* final line break.
MaxLines == 4

BLANK_LINE == <<>>
FENCE_LINE == FENCE_MARK
INDENTED_FENCE_LINE == <<" ">> \o FENCE_MARK \o <<"p", "y">>
INLINE_CODE_LINE == <<BACKTICK, "b", BACKTICK>>
ANNOTATION_LINE == <<"(">> \o ANNOTATION_COLON \o <<" ", "a", ")">>

LineKinds == {BLANK_LINE, FENCE_LINE, INDENTED_FENCE_LINE, INLINE_CODE_LINE, ANNOTATION_LINE}

LineSeqs == UNION {[1..n -> LineKinds] : n \in 0..MaxLines}

Documents == {join(<<"\n">>, ls) \o tail : ls \in LineSeqs, tail \in {<<>>, <<"\n">>}}

\* Documents of one text segment that chunk_paragraphs cuts into several
\* chunks: up to MaxParagraphs paragraphs, one kind of them nearly as long
\* as the budget.
MaxParagraphs == 2

LONG_PARAGRAPH == [i \in 1..(DEFAULT_MAX_CHARS - 4) |-> "x"]
INDENTED_PARAGRAPH == <<" ", "a">>

ParagraphKinds == {LONG_PARAGRAPH, INLINE_CODE_LINE, INDENTED_PARAGRAPH}

LongDocuments ==
    {join(NLNL, ps) : ps \in UNION {[1..n -> ParagraphKinds] : n \in 1..MaxParagraphs}}

NoFiles == [d \in SourceDirs |-> [exists |-> FALSE, files |-> <<>>]]
IdleChunker == [pc |-> "idle"]
IdleNormalizer == [pc |-> "idle"]

DocInit ==
    /\ script \in Scripts
    /\ fs = NoFiles
    /\ pass = 1
    /\ todo = <<FileNames[1]>>
    /\ pc = "translate"
    /\ content \in Documents \cup LongDocuments
    /\ segments = <<>>
    /\ seg_i = 1
    /\ out = <<>>
    /\ placeholders_list = <<>>
    /\ chunks = <<>>
    /\ translated_chunks = <<>>
    /\ translated = <<>>
    /\ written = <<>>
    /\ chunk_log = <<>>
    /\ events = {}
    /\ ck = IdleChunker
    /\ nm = IdleNormalizer

Init == DocInit
Next == DocNext
Spec == Init /\ [][Next]_vars
\* ------------------------------------------------------------------------
\* Properties of one document
\* ------------------------------------------------------------------------

\* needle occurs in hay
IsSubstring(needle, hay) ==
    \E j \in 1..(Len(hay) - Len(needle) + 1) : MatchAt(hay, j, needle)

\* The write main attempted for the document, whether or not it succeeded.
WriteAttempts == {e \in events : e.op \in {"write", "write_failed"}}

\* A line whose trimmed form begins with three backticks.
IsFenceLine(l) ==
    \E n \in {m \in 0..(Len(l) - 3) : l[m + 1] = BACKTICK} :
        /\ l[n + 2] = BACKTICK /\ l[n + 3] = BACKTICK
        /\ \A k \in 1..n : l[k] \in Whitespace

FenceLines(lines) == {f \in 1..Len(lines) : IsFenceLine(lines[f])}

\* Where the maximal runs of non-fence lines start, given the set of fence
\* lines, and where the run that starts at a ends.
RunStarts(lines, fences) ==
    {a \in 1..Len(lines) : a \notin fences /\ (a = 1 \/ (a - 1) \in fences)}

RunLast(lines, fences, a) ==
    CHOOSE b \in a..Len(lines) :
        /\ \A k \in a..b : k \notin fences
        /\ (b = Len(lines) \/ (b + 1) \in fences)

FencesBefore(fences, i) == Cardinality({f \in fences : f < i})

\* The place in the segment list of the fence line, or of the run that
\* starts, at line i.
SegmentIndex(fences, starts, i) ==
    FencesBefore(fences, i) + Cardinality({a \in starts : a < i}) + 1

SegmentTexts == [i \in 1..Len(segments) |-> segments[i].text]

TaggedAsClaimed(lines, fences, starts) ==
    /\ Len(segments) = Cardinality(fences) + Cardinality(starts)
    /\ \A f \in fences :
          segments[SegmentIndex(fences, starts, f)] = [is_code |-> TRUE, text |-> lines[f]]
    /\ \A a \in starts :
          segments[SegmentIndex(fences, starts, a)] =
              [is_code |-> FencesBefore(fences, a) % 2 = 1,
               text |-> join(<<"\n">>, SubSeq(lines, a, RunLast(lines, fences, a)))]

\* C10: Segmenter tagging.  Every fence line is its own Code segment, every
\* maximal run of non-fence lines is one segment, tagged Code exactly when an
\* odd number of fence lines precede it, and the translation function is
\* never called on a Code segment (so never on what follows an unterminated
\* fence).
SegmenterTagging ==
    pc # "translate" =>
        /\ \A lines \in {splitlines(content)} :
              \A fences \in {FenceLines(lines)} :
                  \A starts \in {RunStarts(lines, fences)} :
                      TaggedAsClaimed(lines, fences, starts)
        /\ \A n \in 1..Len(chunk_log) : ~segments[chunk_log[n].seg].is_code

\* An unterminated fence: text, a fence, then lines that are tagged Code, in
\* a document that went through the whole loop body.
SegmenterTaggingWitness ==
    /\ pc = "loop"
    /\ Len(segments) = 3
    /\ ~segments[1].is_code
    /\ IsFenceLine(segments[2].text)
    /\ segments[3].is_code /\ ~IsFenceLine(segments[3].text)
    /\ IsSubstring(<<"\n">>, segments[3].text)
    /\ Len(chunk_log) > 0

\* C3: Fence round-trip, as claimed: with an even number of fence lines,
\* the segments joined by the line separator are the document.
FenceRoundTrip ==
    (pc # "translate" /\ Cardinality(FenceLines(splitlines(content))) % 2 = 0)
        => join(<<"\n">>, SegmentTexts) = content

\* C1: Code immunity, as claimed: the content of every Code segment appears
\* unaltered in what main hands to write_text.
CodeImmunity ==
    \A e \in WriteAttempts :
        \A i \in 1..Len(segments) :
            segments[i].is_code => IsSubstring(segments[i].text, e.text)

\* The inline-code spans of a paragraph: a backtick, a non-empty run of
\* non-backticks, a backtick.
InlineSpans(p) ==
    {SubSeq(p, i, j) : <<i, j>> \in
        {ij \in (1..Len(p)) \X (1..Len(p)) :
            /\ ij[2] > ij[1] + 1
            /\ p[ij[1]] = BACKTICK /\ p[ij[2]] = BACKTICK
            /\ \A k \in (ij[1] + 1)..(ij[2] - 1) : p[k] # BACKTICK}}

HasPlaceholder(t) ==
    \E prefix \in {INLINE_CODE_PREFIX, ANNO_T_PREFIX, ANNO_B_PREFIX} : IsSubstring(prefix, t)

\* The chunks of segment i, as far as the loop got.
ChunkEntries(i) == {n \in 1..Len(chunk_log) : chunk_log[n].seg = i}

IdentityOnly(i) ==
    \A n \in ChunkEntries(i) : chunk_log[n].outcome \in {"identity", "empty"}

ParagraphsOf(i) == split(segments[i].text, NLNL)

\* C2: Inline-code immunity under identity translation, as claimed: once a
\* text segment is restored, every inline-code span of each of its
\* paragraphs is in the output and no placeholder is left.
InlineCodeImmunity ==
    \A i \in 1..Len(out) :
        (~segments[i].is_code /\ IdentityOnly(i)) =>
            /\ \A k \in 1..Len(ParagraphsOf(i)) :
                  \A span \in InlineSpans(ParagraphsOf(i)[k]) : IsSubstring(span, out[i])
            /\ ~HasPlaceholder(out[i])

\* r is c without its leading and trailing whitespace.
IsTrimmed(c, r) ==
    /\ \E a \in 0..Len(c) :
          /\ a + Len(r) <= Len(c)
          /\ \A k \in 1..a : c[k] \in Whitespace
          /\ \A k \in 1..Len(r) : c[a + k] = r[k]
          /\ \A k \in (a + Len(r) + 1)..Len(c) : c[k] \in Whitespace
    /\ r # <<>> => (r[1] \notin Whitespace /\ r[Len(r)] \notin Whitespace)

\* The log lists the chunks of the document in order, each once.
EachChunkOnceInOrder ==
    \A m, n \in 1..Len(chunk_log) :
        m < n => \/ chunk_log[m].seg < chunk_log[n].seg
                 \/ /\ chunk_log[m].seg = chunk_log[n].seg
                    /\ chunk_log[m].idx < chunk_log[n].idx

\* An exception leaves translate_markdown only when a call returned None.
RaiseDoesNotPropagate ==
    pc = "except" => \E n \in 1..Len(chunk_log) : chunk_log[n].outcome = "none"

\* Once a text segment is restored, every one of its chunks was dealt with,
\* and once translate_markdown returns, so was every segment.
AllChunksProcessed ==
    /\ (pc = "segments" /\ seg_i > 1 /\ ~segments[seg_i - 1].is_code)
          => {chunk_log[n].idx : n \in ChunkEntries(seg_i - 1)} = 1..Len(chunks)
    /\ pc \in {"chunks", "except"} => Len(out) = seg_i - 1
    /\ pc \in {"normalize", "write", "loop"} /\ (\A e \in events : e.op # "fallback")
          => /\ Len(out) = Len(segments)
             /\ \A i \in 1..Len(segments) :
                   IF segments[i].is_code THEN out[i] = segments[i].text
                   ELSE ChunkEntries(i) # {}

\* What stands for the chunk among the translated chunks is what the log says.
ResultIsUsed ==
    pc = "chunks" =>
        \A n \in ChunkEntries(seg_i) : translated_chunks[chunk_log[n].idx] = chunk_log[n].result

AtRest ==
    /\ script = "en"
    /\ fs = NoFiles
    /\ pass = 1
    /\ todo = <<>>
    /\ pc = "idle"
    /\ content = <<>>
    /\ segments = <<>>
    /\ seg_i = 1
    /\ out = <<>>
    /\ placeholders_list = <<>>
    /\ chunks = <<>>
    /\ translated_chunks = <<>>
    /\ translated = <<>>
    /\ written = <<>>
    /\ chunk_log = <<>>
    /\ events = {}

MaxChunkParagraphs == 3
SMALL_BUDGET == 5
Budgets == {SMALL_BUDGET, DEFAULT_MAX_CHARS}

\* Paragraph lengths around the places where the loop changes its mind.
ParagraphLengths(m) ==
    {n \in {0, 1, (m \div 2) - 2, (m \div 2) - 1, m - 2, m - 1, m + 1} : n >= 0}

\* The k-th paragraph is made of the k-th letter.
FillChars == LowerCase

ParagraphOf(k, n) == [i \in 1..n |-> FillChars[k]]

ParagraphSeqs(m) ==
    {<<>>}
    \cup UNION {{[k \in 1..n |-> ParagraphOf(k, lens[k])] :
                    lens \in [1..n -> ParagraphLengths(m)]} : n \in 1..MaxChunkParagraphs}

ChunkInit ==
    /\ AtRest
    /\ nm = IdleNormalizer
    /\ \E m \in Budgets : \E ps \in ParagraphSeqs(m) :
          ck = [pc |-> "loop", paragraphs |-> ps, max_chars |-> m, k |-> 1,
                st |-> ChunkStart, chunks |-> <<>>]

\* for p in paragraphs: ...
ChunkParagraph ==
    /\ ck.pc = "loop"
    /\ ck.k <= Len(ck.paragraphs)
    /\ ck' = [ck EXCEPT !.st = ChunkStep(ck.st, ck.paragraphs[ck.k], ck.max_chars),
                        !.k = ck.k + 1]
    /\ UNCHANGED <<docVars, runVars, pc, nm>>

\* if current: chunks.append(...); return chunks
ChunkReturn ==
    /\ ck.pc = "loop"
    /\ ck.k > Len(ck.paragraphs)
    /\ ck' = [ck EXCEPT !.chunks = ChunkFinish(ck.st), !.pc = "done"]
    /\ UNCHANGED <<docVars, runVars, pc, nm>>

ChunkNext == ChunkParagraph \/ ChunkReturn

SpecChunk == ChunkInit /\ [][ChunkNext]_vars

\* The k-th smallest member of a set of numbers.
Kth(S, k) == CHOOSE x \in S : Cardinality({y \in S : y < x}) = k - 1

\* The groups of consecutive paragraphs 1..n that begin at the indices in
\* starts: group j runs from GroupFirst to GroupLast.
GroupFirst(starts, j) == Kth(starts, j)
GroupLast(starts, n, j) ==
    IF j = Cardinality(starts) THEN n ELSE Kth(starts, j + 1) - 1

\* Paragraph lengths plus 2 per joining blank line.
GroupLength(ps, a, b) == Len(join(NLNL, SubSeq(ps, a, b)))

GroupWithinBudget(ps, a, b, m) ==
    \/ GroupLength(ps, a, b) <= m
    \/ a = b /\ Len(ps[a]) > m

\* cs is ps cut into groups of consecutive whole paragraphs, each within
\* the budget m or a single oversized paragraph.
CutsInto(ps, cs, m) ==
    IF ps = <<>> THEN cs = <<>>
    ELSE \E rest \in SUBSET (2..Len(ps)) :
            /\ Len(cs) = Cardinality(rest) + 1
            /\ \A j \in 1..Len(cs) :
                  /\ cs[j] = join(NLNL, SubSeq(ps, GroupFirst(rest \cup {1}, j),
                                               GroupLast(rest \cup {1}, Len(ps), j)))
                  /\ GroupWithinBudget(ps, GroupFirst(rest \cup {1}, j),
                                       GroupLast(rest \cup {1}, Len(ps), j), m)

\* C4: Chunk bound.  Every chunk chunk_paragraphs returns is within the
\* budget or is one paragraph that alone exceeds it; the chunks are
\* consecutive whole paragraphs, and joined with a blank line they are the
\* paragraphs joined with a blank line.
ChunkBound ==
    ck.pc = "done" =>
        /\ CutsInto(ck.paragraphs, ck.chunks, ck.max_chars)
        /\ join(NLNL, ck.chunks) = join(NLNL, ck.paragraphs)
        /\ ck.chunks = chunk_paragraphs(ck.paragraphs, ck.max_chars)

\* With the default budget: an oversized paragraph emitted alone, then two
\* paragraphs sharing a chunk.
ChunkBoundWitness ==
    /\ ck.pc = "done"
    /\ ck.max_chars = DEFAULT_MAX_CHARS
    /\ Len(ck.paragraphs) = 3
    /\ Len(ck.chunks) = 2
    /\ Len(ck.chunks[1]) > DEFAULT_MAX_CHARS
    /\ IsSubstring(NLNL, ck.chunks[2])
\* ------------------------------------------------------------------------
\* normalize_annotations on its own, one re.sub at a time, applied twice
\* ------------------------------------------------------------------------

MaxPieces == 4

\* What the inputs are put together from.
Pieces ==
    {ANNOTATION_COLON, <<"a">>, <<"1">>, <<"-">>, <<" ">>, <<"(">>, <<")">>, <<"[">>, <<"]">>}

RECURSIVE Concat(_)
Concat(parts) == IF parts = <<>> THEN <<>> ELSE Head(parts) \o Concat(Tail(parts))

\* Every concatenation of up to max pieces.
PieceStrings(max) ==
    UNION {{Concat(parts) : parts \in [1..n -> Pieces]} : n \in 0..max}

\* One annotation reference in one of its surface variants, in a context.
Slugs == {<<"a">>, <<"a","-","b">>, <<"1","a">>, <<"a","1","b">>, <<"-","a">>}
Forms == {"bracketed", "bare", "bare_ws", "link"}
GAP_CONTEXT == <<"[","a","]"," ","(","b",")"," ">>
Befores == {<<>>, <<"x"," ">>, <<"(">>, GAP_CONTEXT}
Afters == {<<>>, <<" ","y">>, <<".">>}
LINK_TEXT == <<"[","T","]">>

Variants ==
    [form : Forms, before : Befores, slug : Slugs, after : Afters]

Surface(form, slug) ==
    CASE form = "bracketed" -> BRACKET_ANNOTATION \o <<" ">> \o slug \o <<"]">>
      [] form = "bare"      -> ANNOTATION_COLON \o slug
      [] form = "bare_ws"   -> ANNOTATION_COLON \o <<" ">> \o slug
      [] form = "link"      -> LINK_TEXT \o OPEN_ANNOTATION \o <<" ">> \o slug \o <<")">>

VariantInput(v) == v.before \o Surface(v.form, v.slug) \o v.after

NoVariant == [form |-> "none"]

NormStart(md, v) ==
    [pc |-> "bracketed", md |-> md, text |-> md, round |-> 1, first |-> <<>>, variant |-> v]

NormInit ==
    /\ AtRest
    /\ ck = IdleChunker
    /\ \/ \E md \in PieceStrings(MaxPieces) : nm = NormStart(md, NoVariant)
       \/ \E v \in Variants : nm = NormStart(VariantInput(v), v)

\* md = re.sub(r"\[annotation:\s*([a-z0-9\-]+)\]", repl_bracketed, md)
NormBracketed ==
    /\ nm.pc = "bracketed"
    /\ nm' = [nm EXCEPT !.text = NormalizeBracketed(nm.text), !.pc = "gap"]
    /\ UNCHANGED <<docVars, runVars, pc, ck>>

\* md = re.sub(r"\]\s+\(", "](", md)
NormGap ==
    /\ nm.pc = "gap"
    /\ nm' = [nm EXCEPT !.text = NormalizeGap(nm.text), !.pc = "target"]
    /\ UNCHANGED <<docVars, runVars, pc, ck>>

\* md = re.sub(r"\(annotation:\s*([a-z0-9\-]+)\)", r"(annotation:\1)", md)
NormTarget ==
    /\ nm.pc = "target"
    /\ nm' = [nm EXCEPT !.text = NormalizeTarget(nm.text), !.pc = "bare"]
    /\ UNCHANGED <<docVars, runVars, pc, ck>>

\* md = re.sub(r"(?<!\()annotation:\s*([a-z0-9\-]+)", repl_bare_annotation, md)
\* and the return; the result of the first application is fed to the second.
NormBare ==
    /\ nm.pc = "bare"
    /\ nm' = IF nm.round = 1
             THEN [nm EXCEPT !.text = NormalizeBare(nm.text),
                             !.first = NormalizeBare(nm.text),
                             !.round = 2, !.pc = "bracketed"]
             ELSE [nm EXCEPT !.text = NormalizeBare(nm.text), !.pc = "done"]
    /\ UNCHANGED <<docVars, runVars, pc, ck>>

NormNext == NormBracketed \/ NormGap \/ NormTarget \/ NormBare

SpecNorm == NormInit /\ [][NormNext]_vars

\* C5: Annotation idempotence.  Applying normalize_annotations to its own
\* result changes nothing, so a link target the normalizer produced is not
\* wrapped a second time.
AnnotationIdempotence ==
    /\ nm.round = 2 => nm.first = normalize_annotations(nm.md)
    /\ nm.pc = "done" => nm.text = nm.first

\* The second application has run over a result in which the first one
\* wrapped a bare reference.
AnnotationIdempotenceWitness ==
    /\ nm.pc = "done"
    /\ nm.variant = NoVariant
    /\ nm.first # nm.md
    /\ IsSubstring(<<"]">> \o OPEN_ANNOTATION \o <<"1","a",")">>, nm.first)

\* str.title() of the slug with spaces for hyphens and the ends trimmed:
\* a letter is upper-cased exactly when no letter precedes it.
Spaced(slug) == [k \in 1..Len(slug) |-> IF slug[k] = "-" THEN " " ELSE slug[k]]

TitleCased(t) ==
    [k \in 1..Len(t) |->
        IF t[k] \in Range(LowerCase) /\ (k = 1 \/ t[k - 1] \notin Letters)
        THEN UpperCase[IndexOf(LowerCase, t[k])]
        ELSE t[k]]

Trimmed(t) ==
    CHOOSE r \in {SubSeq(t, a, b) : a \in 1..(Len(t) + 1), b \in 0..Len(t)} : IsTrimmed(t, r)

ExpectedTitle(slug) == TitleCased(Trimmed(Spaced(slug)))

\* The canonical link, and what each variant is to become.
ExpectedLink(link_title, slug) ==
    <<"[">> \o link_title \o <<"]">> \o OPEN_ANNOTATION \o slug \o <<")">>

ExpectedSurface(form, link_title, slug) ==
    IF form = "link"
    THEN LINK_TEXT \o OPEN_ANNOTATION \o slug \o <<")">>
    ELSE ExpectedLink(link_title, slug)

\* The variants the claim speaks of: a bare reference right after "(" is
\* not one of them.
Covered(v) ==
    ~(v.form \in {"bare", "bare_ws"} /\ v.before # <<>> /\ v.before[Len(v.before)] = "(")

\* A bracket, whitespace, a parenthesis with the whitespace taken out.
GapsClosed(t) == replace(t, <<"]", " ", "(">>, <<"]", "(">>)

\* C6: Annotation canonicalization, as claimed: Title is the hyphen
\* separated words each capitalized and joined by spaces, and the
\* surrounding text is unchanged.
AnnotationCanonicalAsClaimed ==
    (nm.round = 2 /\ nm.variant # NoVariant /\ Covered(nm.variant)) =>
        nm.first = nm.variant.before
                   \o ExpectedSurface(nm.variant.form, CapitalizedWords(nm.variant.slug),
                                      nm.variant.slug)
                   \o nm.variant.after

\* C6, amended: the bracketed form and every bare reference not right after
\* "(" become [Title](annotation:SLUG) where Title is the slug with spaces
\* for hyphens, trimmed, in title case (a letter is upper-cased exactly when
\* no letter precedes it, so 1a gives 1A); an existing link keeps its text
\* and loses the whitespace of its target; the surrounding text is unchanged
\* except that whitespace between "]" and "(" is removed.
AnnotationCanonical ==
    (nm.round = 2 /\ nm.variant # NoVariant /\ Covered(nm.variant)) =>
        nm.first = GapsClosed(nm.variant.before)
                   \o ExpectedSurface(nm.variant.form, ExpectedTitle(nm.variant.slug),
                                      nm.variant.slug)
                   \o nm.variant.after

\* A bare reference whose slug starts with a digit, after text with a gap
\* between "]" and "(".
AnnotationCanonicalWitness ==
    /\ nm.round = 2
    /\ nm.variant # NoVariant
    /\ nm.variant.form = "bare_ws"
    /\ nm.variant.slug = <<"1", "a">>
    /\ nm.variant.before = GAP_CONTEXT
    /\ nm.first # nm.md
\* ------------------------------------------------------------------------
\* A whole run over a small source tree
\* ------------------------------------------------------------------------

MaxFiles == 3

\* Every file says where it is from in its first line.
DirMark(dir) ==
    CASE dir = "chapters/zh"    -> <<"z">>
      [] dir = "chapters/en"    -> <<"e">>
      [] dir = "annotations/zh" -> <<"n">>

\* a.md: an annotation reference, an empty code block, a line of whitespace.
\* b.md: an inline-code span.
Body(name) ==
    IF name = FileNames[1]
    THEN join(<<"\n">>, <<ANNOTATION_LINE, FENCE_LINE, FENCE_LINE, <<" ">>>>)
    ELSE INLINE_CODE_LINE

DocOf(dir, name) == DirMark(dir) \o <<"\n">> \o Body(name)

DirChoices ==
    {c \in [exists : BOOLEAN, names : SUBSET Range(FileNames)] : c.exists \/ c.names = {}}

RECURSIVE SumOver(_, _)
SumOver(f, S) ==
    IF S = {} THEN 0
    ELSE LET d == CHOOSE x \in S : TRUE IN Cardinality(f[d].names) + SumOver(f, S \ {d})

\* Every source tree of up to max files.
Trees(max) ==
    {[d \in SourceDirs |->
         [exists |-> c[d].exists, files |-> [n \in c[d].names |-> DocOf(d, n)]]] :
       c \in {x \in [SourceDirs -> DirChoices] : SumOver(x, SourceDirs) <= max}}

RunInit ==
    /\ script \in Scripts
    /\ fs \in Trees(MaxFiles)
    /\ pass = 1
    /\ todo = <<>>
    /\ pc = "start"
    /\ content = <<>>
    /\ segments = <<>>
    /\ seg_i = 1
    /\ out = <<>>
    /\ placeholders_list = <<>>
    /\ chunks = <<>>
    /\ translated_chunks = <<>>
    /\ translated = <<>>
    /\ written = <<>>
    /\ chunk_log = <<>>
    /\ events = {}
    /\ ck = IdleChunker
    /\ nm = IdleNormalizer

SpecRun == RunInit /\ [][RunNext \/ DocNext]_vars
\* The states in which main is inside the loop body for the current file.
InLoopBody == pc \in {"translate", "segments", "chunks", "except", "normalize", "write"}

SourceContent(f) == fs[f[1]].files[f[2]]

\* main is through with file f.
Finished(f) == ~(InLoopBody /\ CurrentFile = f)

\* Every file of every source directory of the run was skipped, failed to
\* be read, or got its write attempt.
Handled(f) ==
    \E e \in events : e.file = f /\ e.op \in {"skip", "read_failed", "write", "write_failed"}

RunGoesOn ==
    pc = "done" =>
        \A p \in 1..Len(Passes(script)) :
            \A n \in DOMAIN fs[Passes(script)[p].src].files :
                (script = "ja" \/ fs[Passes(script)[p].src].exists)
                    => Handled(<<Passes(script)[p].src, n>>)

\* The pipeline raised only for documents that had been read.
FallbackAfterRead ==
    \A e \in events :
        e.op = "fallback" =>
            /\ e.text = SourceContent(e.file)
            /\ \E r \in events : r.op = "read" /\ r.file = e.file /\ r.text = e.text

\* C8: Whole-document pipeline failure fallback, as claimed: what main
\* hands to write_text after the pipeline raised is the original content.
PipelineFallbackAsClaimed ==
    /\ FallbackAfterRead
    /\ \A e \in events :
          (e.op = "fallback" /\ Finished(e.file)) =>
              \E w \in WriteAttempts : w.file = e.file /\ w.text = e.text
    /\ RunGoesOn

\* C8, amended: for every document read successfully whose pipeline raises,
\* the run still attempts the write and goes on to every remaining
\* document; what it hands to write_text is the original content in
\* translate_to_ja.py, and the original content put through
\* normalize_annotations in translate_chapters.py.
PipelineFallback ==
    /\ FallbackAfterRead
    /\ \A e \in events :
          (e.op = "fallback" /\ Finished(e.file)) =>
              \E w \in WriteAttempts :
                  /\ w.file = e.file
                  /\ w.text = IF script = "en" THEN normalize_annotations(e.text) ELSE e.text
    /\ RunGoesOn

\* translate_chapters.py: the pipeline raised for a.md, whose content the
\* normalizer changes; a.md was written and the run went on to write b.md.
PipelineFallbackWitness ==
    /\ script = "en"
    /\ pc = "done"
    /\ \E e \in events :
          /\ e.op = "fallback"
          /\ e.file = <<"chapters/zh", FileNames[1]>>
          /\ normalize_annotations(e.text) # e.text
          /\ \E w \in events : w.op = "write" /\ w.file = e.file
    /\ \E w \in events : w.op = "write" /\ w.file = <<"chapters/zh", FileNames[2]>>

\* The names present in both the preferred and the fallback directory.
InBoth(n) ==
    /\ fs["chapters/zh"].exists /\ n \in DOMAIN fs["chapters/zh"].files
    /\ fs["chapters/en"].exists /\ n \in DOMAIN fs["chapters/en"].files

Fallbacks == IF fs["chapters/en"].exists THEN DOMAIN fs["chapters/en"].files ELSE {}

\* For a name in both directories the fallback file is only ever skipped:
\* it is not read, its content is never the document in the pipeline, and
\* what is written under that name comes from the preferred file.
FallbackNeverUsed ==
    \A n \in Range(FileNames) :
        InBoth(n) =>
            /\ \A e \in events : e.file = <<"chapters/en", n>> => e.op = "skip"
            /\ content # SourceContent(<<"chapters/en", n>>)
            /\ (InLoopBody /\ Destination = <<"chapters/ja", n>>)
                  => content = SourceContent(<<"chapters/zh", n>>)
            /\ <<"chapters/ja", n>> \in DOMAIN written
                  => \E w \in events : /\ w.op = "write"
                                       /\ w.file = <<"chapters/zh", n>>
                                       /\ w.text = written[<<"chapters/ja", n>>]

\* C9: Fallback-source skip, as claimed: a fallback file is translated
\* exactly when its name is absent from the preferred directory.
FallbackSourceSkipAsClaimed ==
    script = "ja" =>
        /\ FallbackNeverUsed
        /\ pc = "done" =>
              \A n \in Fallbacks :
                  (\E e \in events : e.file = <<"chapters/en", n>> /\ e.op = "read")
                      <=> ~InBoth(n)

\* C9, amended: in the Japanese run the fallback file of a name present in
\* both directories is never read, passed to the translator or written,
\* and only the preferred content reaches the translator for that name; a
\* fallback file is taken up exactly when its name is absent from the
\* preferred directory, and it is translated when in addition it can be
\* read.
FallbackSourceSkip ==
    script = "ja" =>
        /\ FallbackNeverUsed
        /\ pc = "done" =>
              \A n \in Fallbacks :
                  /\ (\E e \in events : /\ e.file = <<"chapters/en", n>>
                                        /\ e.op \in {"read", "read_failed"})
                        <=> ~InBoth(n)
                  /\ (\E e \in events : e.file = <<"chapters/en", n>> /\ e.op = "read")
                        <=> (~InBoth(n) /\ ~\E e \in events : /\ e.file = <<"chapters/en", n>>
                                                              /\ e.op = "read_failed")

\* a.md is in both directories and b.md only in the fallback one: the run
\* wrote a.md from the preferred file, skipped the fallback a.md and wrote
\* b.md from the fallback file.
FallbackSourceSkipWitness ==
    /\ script = "ja"
    /\ pc = "done"
    /\ InBoth(FileNames[1])
    /\ \E e \in events : e.op = "skip" /\ e.file = <<"chapters/en", FileNames[1]>>
    /\ \E e \in events : e.op = "write" /\ e.file = <<"chapters/zh", FileNames[1]>>
    /\ \E e \in events : e.op = "write" /\ e.file = <<"chapters/en", FileNames[2]>>
====
